---- MODULE Spec2Model ----
(***************************************************************************)
(* Model of src/main.py: the POST /api/protein endpoint.                   *)
(*                                                                         *)
(* The handler computes in Python floats (IEEE-754 binary64).  Its results *)
(* differ from exact decimal arithmetic at ties (1.4 * 42.5 is 59.5 on     *)
(* paper, the float product lies below it and round() gives 59), so the    *)
(* model carries binary64 values exactly: a float is a record              *)
(* [m |-> mantissa, e |-> exponent] of value m * 2^e, the mantissa a       *)
(* natural number of at most 53 bits kept as a little-endian sequence of   *)
(* 15-bit limbs, and every operation rounds to nearest, ties to even.      *)
(***************************************************************************)
EXTENDS Integers, Sequences, FiniteSets, TLC

(***************************************************************************)
(* One request is in service at a time: the endpoint is a plain function   *)
(* and nothing in the module outlives a call.  An absent value is the      *)
(* empty sequence, a present one a sequence of one element.                *)
(*   pc      where the service stands: "idle", "pending", "done"           *)
(*   req     the request body received                                     *)
(*   status  the HTTP status of the answer: 200, 422, or 0 before it       *)
(*   resp    the ProteinResponse returned by calculate_protein             *)
(*   frame   locals of calculate_protein and _make_plan that the response  *)
(*           does not show                                                 *)
(*   seen    a history variable: one earlier call, its request and its     *)
(*           response, kept by an observer of the service                  *)
(***************************************************************************)
VARIABLES pc, req, status, resp, frame, seen
vars == << pc, req, status, resp, frame, seen >>

(***************************************************************************)
(* Natural numbers of arbitrary size: little-endian limbs in 0..Base-1,    *)
(* no most-significant zero limb, zero is the empty sequence.              *)
(***************************************************************************)
Max(a, b) == IF b > a THEN b ELSE a
Min(a, b) == IF b < a THEN b ELSE a

RECURSIVE Pow2(_)
Pow2(k) == IF k = 0 THEN 1 ELSE 2 * Pow2(k - 1)

LimbBits == 16 - 1
Base     == Pow2(LimbBits)
MantBits == 52 + 1

RECURSIVE BigNorm(_)
BigNorm(a) ==
    IF a = <<>> THEN <<>>
    ELSE IF a[Len(a)] = 0 THEN BigNorm(SubSeq(a, 1, Len(a) - 1))
    ELSE a

RECURSIVE BigFromInt(_)
BigFromInt(n) ==
    IF n = 0 THEN <<>> ELSE <<n % Base>> \o BigFromInt(n \div Base)

RECURSIVE BigToInt(_)
BigToInt(a) ==
    IF a = <<>> THEN 0 ELSE a[1] + Base * BigToInt(Tail(a))

Limb(a, i) == IF i <= Len(a) THEN a[i] ELSE 0

RECURSIVE BigAddC(_, _, _)
BigAddC(a, b, c) ==
    IF a = <<>> /\ b = <<>> THEN (IF c = 0 THEN <<>> ELSE <<c>>)
    ELSE LET s == Limb(a, 1) + Limb(b, 1) + c
         IN  <<s % Base>> \o BigAddC(IF a = <<>> THEN a ELSE Tail(a),
                                     IF b = <<>> THEN b ELSE Tail(b),
                                     s \div Base)
BigAdd(a, b) == BigAddC(a, b, 0)

\* a - b for a >= b
RECURSIVE BigSubC(_, _, _)
BigSubC(a, b, c) ==
    IF a = <<>> THEN <<>>
    ELSE LET d == a[1] - Limb(b, 1) - c
         IN  <<IF d < 0 THEN d + Base ELSE d>>
             \o BigSubC(Tail(a), IF b = <<>> THEN b ELSE Tail(b),
                        IF d < 0 THEN 1 ELSE 0)
BigSub(a, b) == BigNorm(BigSubC(a, b, 0))

\* -1, 0, 1 as a < b, a = b, a > b
RECURSIVE BigCmpAt(_, _, _)
BigCmpAt(a, b, i) ==
    IF i = 0 THEN 0
    ELSE IF a[i] < b[i] THEN -1
    ELSE IF a[i] > b[i] THEN 1
    ELSE BigCmpAt(a, b, i - 1)
BigCmp(a, b) ==
    IF Len(a) < Len(b) THEN -1
    ELSE IF Len(a) > Len(b) THEN 1
    ELSE BigCmpAt(a, b, Len(a))

\* a * k for 0 <= k < Base
RECURSIVE BigMulSmallC(_, _, _)
BigMulSmallC(a, k, c) ==
    IF a = <<>> THEN (IF c = 0 THEN <<>> ELSE <<c>>)
    ELSE LET p == a[1] * k + c
         IN  <<p % Base>> \o BigMulSmallC(Tail(a), k, p \div Base)
BigMulSmall(a, k) == IF k = 0 THEN <<>> ELSE BigMulSmallC(a, k, 0)

RECURSIVE BigMul(_, _)
BigMul(a, b) ==
    IF a = <<>> \/ b = <<>> THEN <<>>
    ELSE LET rest == BigMul(a, Tail(b))
         IN  BigAdd(BigMulSmall(a, b[1]),
                    IF rest = <<>> THEN <<>> ELSE <<0>> \o rest)

\* [q, r] of a divided by 0 < d < Base
RECURSIVE BigDivSmallAt(_, _, _, _)
BigDivSmallAt(a, d, i, r) ==
    IF i = 0 THEN [q |-> <<>>, r |-> r]
    ELSE LET cur == r * Base + a[i]
             low == BigDivSmallAt(a, d, i - 1, cur % d)
         IN  [q |-> low.q \o <<cur \div d>>, r |-> low.r]
BigDivSmall(a, d) ==
    LET res == BigDivSmallAt(a, d, Len(a), 0)
    IN  [q |-> BigNorm(res.q), r |-> BigFromInt(res.r)]

RECURSIVE IntBitLen(_)
IntBitLen(n) == IF n = 0 THEN 0 ELSE 1 + IntBitLen(n \div 2)
BigBitLen(a) ==
    IF a = <<>> THEN 0 ELSE LimbBits * (Len(a) - 1) + IntBitLen(a[Len(a)])

Zeros(n) == [i \in 1..n |-> 0]

\* a * 2^n
BigShl(a, n) ==
    IF a = <<>> THEN <<>>
    ELSE Zeros(n \div LimbBits) \o BigMulSmall(a, Pow2(n % LimbBits))

\* floor(a / 2^n)
BigShr(a, n) ==
    LET k == n \div LimbBits
    IN  IF k >= Len(a) THEN <<>>
        ELSE BigDivSmall(SubSeq(a, k + 1, Len(a)), Pow2(n % LimbBits)).q

BigIsOdd(a) == a # <<>> /\ a[1] % 2 = 1

\* n / 2^s rounded to the nearest natural, ties to even; sticky tells that
\* n itself stands for a value slightly above n
\* q, or q + 1 when the remainder compares to the half as c says
BigRoundQ(q, c, sticky) ==
    IF c = 1 \/ (c = 0 /\ (sticky \/ BigIsOdd(q))) THEN BigAdd(q, <<1>>) ELSE q
BigRoundRem(n, s, sticky, q) ==
    BigRoundQ(q, BigCmp(BigSub(n, BigShl(q, s)), BigShl(<<1>>, s - 1)), sticky)
BigShrRound(n, s, sticky) ==
    IF s = 0 THEN n ELSE BigRoundRem(n, s, sticky, BigShr(n, s))

(***************************************************************************)
(* Python floats.  [m, e] stands for m * 2^e; m is zero or has exactly     *)
(* MantBits bits.  Only values >= 0 occur: a request whose weight is not   *)
(* positive is rejected before any arithmetic.                             *)
(***************************************************************************)
FZero == [m |-> <<>>, e |-> 0]

\* the float nearest to n * 2^e (to slightly more, when sticky)
\* r * 2^e for r rounded to MantBits bits: rounding up may have carried
FCarry(r, e) ==
    IF BigBitLen(r) > MantBits
    THEN [m |-> BigShr(r, 1), e |-> e + 1]
    ELSE [m |-> r, e |-> e]
FNormal(n, e, sticky) ==
    LET len == BigBitLen(n)
    IN  IF n = <<>> THEN FZero
        ELSE IF len <= MantBits
             THEN [m |-> BigShl(n, MantBits - len), e |-> e - (MantBits - len)]
        ELSE FCarry(BigShrRound(n, len - MantBits, sticky),
                    e + (len - MantBits))

FFromInt(n) == FNormal(BigFromInt(n), 0, FALSE)

FMul(x, y) == FNormal(BigMul(x.m, y.m), x.e + y.e, FALSE)

FAdd(x, y) ==
    IF x.m = <<>> THEN y
    ELSE IF y.m = <<>> THEN x
    ELSE LET lo == IF x.e < y.e THEN x.e ELSE y.e
         IN  FNormal(BigAdd(BigShl(x.m, x.e - lo), BigShl(y.m, y.e - lo)),
                     lo, FALSE)

\* the largest d in lo..hi with b * d <= a, given b * lo <= a
RECURSIVE Digit(_, _, _, _)
Digit(a, b, lo, hi) ==
    IF lo >= hi THEN lo
    ELSE LET mid == (lo + hi + 1) \div 2
         IN  IF BigCmp(BigMulSmall(b, mid), a) <= 0
             THEN Digit(a, b, mid, hi)
             ELSE Digit(a, b, lo, mid - 1)

\* the leading bits of a natural of up to five limbs: floor(a / 2^38)
Lead(a) == Limb(a, 5) * 4194304 + Limb(a, 4) * 128 + Limb(a, 3) \div 256

\* [q, r] with a * Base^k = q * b + r and r < b, for a < Base * b and b a
\* mantissa of MantBits bits; the leading bits bracket each quotient limb
LongDigit(q, cur, b, d) ==
    [q |-> IF d = 0 /\ q = <<>> THEN <<>> ELSE <<d>> \o q,
     r |-> BigSub(cur, BigMulSmall(b, d))]
LongStep(q, cur, b) ==
    LongDigit(q, cur, b,
              Digit(cur, b, Lead(cur) \div (Lead(b) + 1),
                    Min(Base - 1, (Lead(cur) + 1) \div Lead(b))))
RECURSIVE LongDiv(_, _, _)
LongDiv(a, b, k) ==
    LET p == IF k = 0 THEN [q |-> <<>>, r |-> a] ELSE LongDiv(a, b, k - 1)
    IN  LongStep(p.q, IF k = 0 \/ p.r = <<>> THEN p.r ELSE <<0>> \o p.r, b)

\* quotient limbs that hold MantBits + 2 bits and more
DivLimbs == (MantBits + 2) \div LimbBits + 1

\* x / y for y > 0.  A divisor whose mantissa is one limb above zeros (2, 4,
\* 5, 9, 100: t * Base^k) is divided by in one pass; the quotient carries
\* more than MantBits + 2 bits either way and is rounded once.
FQuot(d, e) == FNormal(d.q, e, d.r # <<>>)
FDiv(x, y) ==
    IF x.m = <<>> THEN FZero
    ELSE IF \A i \in 1..(Len(y.m) - 1) : y.m[i] = 0
    THEN FQuot(BigDivSmall(<<0>> \o x.m, y.m[Len(y.m)]),
               x.e - y.e - Len(y.m) * LimbBits)
    ELSE FQuot(LongDiv(x.m, y.m, DivLimbs), x.e - y.e - DivLimbs * LimbBits)

\* -1, 0, 1 as x < y, x = y, x > y
FCmp(x, y) ==
    IF x.m = <<>> THEN (IF y.m = <<>> THEN 0 ELSE -1)
    ELSE IF y.m = <<>> THEN 1
    ELSE IF x.e = y.e THEN BigCmp(x.m, y.m)
    ELSE IF x.e < y.e THEN -1
    ELSE 1

FMax(x, y) == IF FCmp(y, x) > 0 THEN y ELSE x
FMin(x, y) == IF FCmp(y, x) < 0 THEN y ELSE x

\* Python round(x): the nearest integer, ties to even
FRound(x) ==
    IF x.e >= 0 THEN BigToInt(BigShl(x.m, x.e))
    ELSE BigToInt(BigShrRound(x.m, 0 - x.e, FALSE))

\* the float a decimal literal n / 10^d denotes (0 <= d <= 8)
RECURSIVE Pow10(_)
Pow10(d) == IF d = 0 THEN 1 ELSE 10 * Pow10(d - 1)
FDec(n, d) == FDiv(FFromInt(n), FFromInt(Pow10(d)))

\* x * 10^d rounded to the nearest integer, ties to even (x < 2^53)
Scaled(x, d) ==
    IF x.e >= 0 THEN BigToInt(BigShl(x.m, x.e)) * Pow10(d)
    ELSE BigToInt(BigShrRound(BigMulSmall(x.m, Pow10(d)), 0 - x.e, FALSE))

\* Python round(x, d): correctly rounded to d decimals, then back to float
FRoundTo(x, d) == FDec(Scaled(x, d), d)

(***************************************************************************)
(* Text of a float.                                                        *)
(***************************************************************************)
RangeDecimals == 2

RECURSIVE Digits(_, _)
Digits(n, d) ==
    IF d = 0 THEN "" ELSE Digits(n \div 10, d - 1) \o ToString(n % 10)

\* n / 10^d written with d decimals, d >= 1
DecText(n, d) == ToString(n \div Pow10(d)) \o "." \o Digits(n % Pow10(d), d)

\* x written with d decimals, one at least
ReprText(x, d) == DecText(Scaled(x, Max(d, 1)), Max(d, 1))

\* the text of format(x, ".2f")
PyFixed2(x) == DecText(Scaled(x, 2), 2)

\* repr(x), the text an f-string puts for {x}: the shortest decimal that
\* reads back as x and keeps one decimal at least (x between 1e-4 and 1e16,
\* of at most RangeDecimals decimals,
\* which is what round(x, 2) leaves)
PyRepr(x) ==
    ReprText(x, CHOOSE k \in 0..RangeDecimals :
                    \A j \in 0..k : (FRoundTo(x, j) = x) <=> (j = k))

(***************************************************************************)
(* ProteinRequest.  weight is the decimal of the request body in           *)
(* hundredths (8000 is 80.00); age is {} for None, else {n}.               *)
(***************************************************************************)
Units      == {"kg", "lb"}
Activities == {"low", "moderate", "high"}
Goals      == {"fat_loss", "maintenance", "muscle_gain"}

MaxWeightValue == 1000
MinAge == 10
MaxAge == 100

\* the float pydantic stores for the field
WeightOf(r) == FDec(r.weight, 2)

\* the factor cut to two decimals
LbToKgShort == FDec(45, 2)
LbToKg == FDec(45359237, 8)

\* the local weight_kg of calculate_protein
to_kg(unit, weight) == IF unit = "kg" THEN weight ELSE FMul(weight, LbToKg)
weight_kg(r) == to_kg(r.unit, WeightOf(r))

\* the limit applied to the weight in kilograms, after the conversion
validate_converted(r) == FCmp(weight_kg(r), FFromInt(MaxWeightValue)) <= 0

\* the validator: rejects v > 1000
validate_weight(r) == FCmp(WeightOf(r), FFromInt(MaxWeightValue)) <= 0

\* Field(gt=0) on weight, the validator, Field(ge=10, le=100) on age
ProteinRequest(r) ==
    /\ r.weight > 0
    /\ validate_weight(r)
    /\ \A a \in r.age : a >= MinAge /\ a <= MaxAge

(***************************************************************************)
(* _round5 and _make_plan                                                  *)
(***************************************************************************)
\* cut down to a multiple of 5 instead of rounding to the nearest
round5_down(x) == (FRound(x) \div 5) * 5

round5(x) == FRound(FDiv(x, FFromInt(5))) * 5

LiftingBeast    == "Lifting Beast"
MatDominator    == "Mat Dominator"
TrackRocket     == "Track Rocket"
GrandTourEngine == "Grand Tour Engine"

base_meals(name) ==
    CASE name = LiftingBeast ->
           << "Breakfast: Greek yogurt parfait + oats + whey",
              "Lunch: Steak bowl with rice, beans, salsa",
              "Snack: Cottage cheese + fruit + almonds",
              "Dinner: Chicken thighs, potatoes, roasted veg" >>
      [] name = MatDominator ->
           << "Breakfast: Egg white omelet + spinach + toast",
              "Lunch: Turkey rice bowl + kimchi",
              "Snack: Beef jerky + banana",
              "Dinner: Salmon, quinoa, mixed greens" >>
      [] name = TrackRocket ->
           << "Breakfast: Protein pancakes + berries",
              "Lunch: Teriyaki chicken + jasmine rice",
              "Snack: Low-fat chocolate milk + pretzels",
              "Dinner: Lean beef pasta + tomato sauce" >>
      [] name = GrandTourEngine ->
           << "Breakfast: Oats + honey + whey + banana",
              "Ride Fuel: Rice cakes + isotonic drink",
              "Lunch: Tuna baguette + fruit",
              "Dinner: Chicken risotto + olive oil drizzle" >>
      [] OTHER ->
           << "Breakfast: Eggs + oats + fruit",
              "Lunch: Chicken rice bowl",
              "Snack: Yogurt + nuts",
              "Dinner: Fish, potatoes, vegetables" >>

Pct(n) == FDiv(FFromInt(n), FFromInt(100))

\* the frame of _make_plan when it returns: its float locals and its result
plan_frame(name, tagline, pct, protein_g, total_kcal, carbs_g, fats_g) ==
    [ total_kcal |-> total_kcal,
      carbs_g    |-> carbs_g,
      fats_g     |-> fats_g,
      result     |->
        [ name         |-> name,
          tagline      |-> tagline,
          macros       |-> [ protein_g     |-> round5(FFromInt(protein_g)),
                             carbs_g       |-> round5(carbs_g),
                             fats_g        |-> round5(fats_g),
                             split_percent |-> [ protein |-> pct[1],
                                                 carbs   |-> pct[2],
                                                 fats    |-> pct[3] ],
                             calories      |-> FRound(total_kcal) ],
          sample_meals |-> base_meals(name) ] ]

\* carbs_g and fats_g from total_kcal
plan_grams(name, tagline, pct, protein_g, total_kcal) ==
    plan_frame(name, tagline, pct, protein_g, total_kcal,
               FDiv(FMul(total_kcal, Pct(pct[2])), FFromInt(4)),
               FDiv(FMul(total_kcal, Pct(pct[3])), FFromInt(9)))

make_plan(name, tagline, pct, protein_g) ==
    plan_grams(name, tagline, pct, protein_g,
               FDiv(FMul(FFromInt(protein_g), FFromInt(4)), Pct(pct[1])))

(***************************************************************************)
(* calculate_protein                                                       *)
(***************************************************************************)
\* a pair of float literals given in tenths
Tenths(lo, hi) == << FDec(lo, 1), FDec(hi, 1) >>

\* base_min, base_max by activity
base_range(activity) ==
    CASE activity = "low"      -> Tenths(12, 16)
      [] activity = "moderate" -> Tenths(16, 20)
      [] OTHER                 -> Tenths(18, 22)

\* base_min += by, base_max += by
raised(b, by) == << FAdd(b[1], by), FAdd(b[2], by) >>

\* muscle_gain adds 1.0 where 0.1 is meant
goal_range_typo(b, goal) ==
    CASE goal = "fat_loss"    -> raised(b, FDec(2, 1))
      [] goal = "muscle_gain" -> raised(b, FDec(10, 1))
      [] OTHER                -> b

\* base_min, base_max after the goal adjustment of the base range b
goal_range(b, goal) ==
    CASE goal = "fat_loss"    -> raised(b, FDec(2, 1))
      [] goal = "muscle_gain" -> raised(b, FDec(1, 1))
      [] OTHER                -> b

\* min_gkg, max_gkg: clamp to sensible range
min_gkg(base_min) == FMax(FDec(12, 1), FRoundTo(base_min, RangeDecimals))
max_gkg(base_max) == FMin(FDec(27, 1), FRoundTo(base_max, RangeDecimals))

\* one decimal kept instead of two
reported_one_decimal(wkg) == FRoundTo(wkg, 1)

\* weight_kg as the response reports it
reported_weight(wkg) == FRoundTo(wkg, 2)

daily(gkg, wkg) == FRound(FMul(gkg, wkg))
\* the sum of the two bounds taken for their middle
target_of_sum(mn, mx, wkg) == FRound(FMul(FAdd(mn, mx), wkg))

target(mn, mx, wkg) ==
    FRound(FMul(FDiv(FAdd(mn, mx), FFromInt(2)), wkg))

rationale(mn, mx) ==
    "Based on your activity and goal, a range of "
    \o PyRepr(mn) \o "-" \o PyRepr(mx) \o " g/kg is appropriate. "
    \o "Using your body weight, that translates to the amounts shown. "
    \o "Hitting the middle of the range is a practical daily target."

archetypes ==
    << [ name |-> LiftingBeast,
         tag  |-> "Build thick strength with steady carbs.",
         pct  |-> << 30, 45, 25 >> ],
       [ name |-> MatDominator,
         tag  |-> "Mat-ready power with cutting-edge leanness.",
         pct  |-> << 35, 35, 30 >> ],
       [ name |-> TrackRocket,
         tag  |-> "Explosive speed fueled by fast carbs.",
         pct  |-> << 25, 50, 25 >> ],
       [ name |-> GrandTourEngine,
         tag  |-> "Endurance-first fuel for long days in the saddle.",
         pct  |-> << 20, 60, 20 >> ] >>

\* a bump that stays set once any call was answered and kept
goal_adj_sticky(goal) == IF goal = "fat_loss" \/ seen # << >> THEN 5 ELSE 0

goal_adj(goal) == IF goal = "fat_loss" THEN 5 ELSE 0

ProteinCap == 45
\* the floor the comment above the clamp speaks of
CarbsFloor35 == 35
CarbsFloor == 30
FatFloor   == 20

adj_p(p, p_bump) == Min(ProteinCap, p + p_bump)

\* carbs not reduced by what protein gained
adj_c_kept(c, p_bump) == Max(CarbsFloor, c)
adj_c(c, p_bump) == Max(CarbsFloor, c - p_bump)

\* one turn of the loop over archetypes: the split handed to _make_plan and
\* whether the branch total != 100 was taken
split(pct, p_bump) ==
    LET ap    == adj_p(pct[1], p_bump)
        ac    == adj_c(pct[2], p_bump)
        total == ap + ac + pct[3]
    IN  [ pct        |-> << ap, ac,
                            IF total # 100
                            THEN Max(FatFloor, pct[3] + (100 - total))
                            ELSE pct[3] >>,
          normalized |-> total # 100 ]

\* the loop over archetypes from the i-th on: per turn, whether the branch
\* total != 100 was taken and the frame of _make_plan
RECURSIVE Loop(_, _, _)
Loop(i, p_bump, tgt) ==
    IF i > Len(archetypes) THEN << >>
    ELSE LET sp == split(archetypes[i].pct, p_bump)
         IN  << [ normalized |-> sp.normalized,
                  plan |-> make_plan(archetypes[i].name, archetypes[i].tag,
                                     sp.pct, tgt) ] >>
             \o Loop(i + 1, p_bump, tgt)

\* the frame of calculate_protein when it returns: the locals the response
\* does not show, and the response
returned(wkg, mn, mx, tgt, turn) ==
    [ weight_kg |-> wkg,
      loop      |-> [ i \in 1..Len(archetypes) |->
                        [ normalized |-> turn[i].normalized,
                          total_kcal |-> turn[i].plan.total_kcal,
                          carbs_g    |-> turn[i].plan.carbs_g,
                          fats_g     |-> turn[i].plan.fats_g ] ],
      response  |->
        [ weight_kg          |-> reported_weight(wkg),
          grams_per_kg_range |-> << mn, mx >>,
          daily_grams_min    |-> daily(mn, wkg),
          daily_grams_max    |-> daily(mx, wkg),
          daily_grams_target |-> tgt,
          rationale          |-> rationale(mn, mx),
          suggestions        |-> [ i \in 1..Len(archetypes) |->
                                     turn[i].plan.result ] ] ]

\* the suggestions for the target tgt
suggest(goal, wkg, mn, mx, tgt) ==
    returned(wkg, mn, mx, tgt, Loop(1, goal_adj(goal), tgt))

\* the target of the clamped range
clamped(goal, wkg, mn, mx) == suggest(goal, wkg, mn, mx, target(mn, mx, wkg))

\* the clamps on the adjusted range rng
ranged(goal, wkg, rng) == clamped(goal, wkg, min_gkg(rng[1]), max_gkg(rng[2]))

calculate_protein(r) ==
    ranged(r.goal, weight_kg(r), goal_range(base_range(r.activity), r.goal))

(***************************************************************************)
(* The service                                                             *)
(***************************************************************************)
Request(weights, ages) ==
    [ weight : weights, unit : Units, activity : Activities, goal : Goals,
      age : ages ]

\* weights in hundredths around the small end of the scale
MaxWeight == 4
ServedRequests == Request(0..MaxWeight, { {}, {MinAge - 1} })

\* weights over the whole scale: multiples of 4.25, the examples of the
\* documentation, and both sides of the two limits
MaxSteps == 40
CalcWeights ==
    { 425 * k : k \in 1..MaxSteps }
        \cup { 0 - 100, 0, 1, 8000, 15000,
               MaxWeightValue * 100, MaxWeightValue * 100 + 1,
               (MaxWeightValue + 1) * 100 }
CalcRequests == Request(CalcWeights, { {}, {MinAge - 1}, {MaxAge} })

Idle ==
    /\ pc = "idle" /\ req = << >> /\ status = 0
    /\ resp = << >> /\ frame = << >>

Init == Idle /\ seen = << >>

\* a request body arrives at POST /api/protein
Receive(r) ==
    /\ pc = "idle"
    /\ pc' = "pending"
    /\ req' = << r >>
    /\ UNCHANGED << status, resp, frame, seen >>

\* the body fails ProteinRequest: 422, calculate_protein is not called
Reject ==
    /\ pc = "pending"
    /\ ~ ProteinRequest(req[1])
    /\ pc' = "done"
    /\ status' = 422
    /\ UNCHANGED << req, resp, frame, seen >>

\* the body passes ProteinRequest: calculate_protein runs and returns
Calculate ==
    /\ pc = "pending"
    /\ ProteinRequest(req[1])
    /\ \E out \in { calculate_protein(req[1]) } :
           /\ resp'  = << out.response >>
           /\ frame' = << [ weight_kg |-> out.weight_kg, loop |-> out.loop ] >>
    /\ pc' = "done"
    /\ status' = 200
    /\ UNCHANGED << req, seen >>

\* the answer is sent; nothing of the call remains in the service
Respond ==
    /\ pc = "done"
    /\ pc' = "idle" /\ req' = << >> /\ status' = 0
    /\ resp' = << >> /\ frame' = << >>
    /\ UNCHANGED seen

\* the same, and the observer keeps this call
Remember ==
    /\ pc = "done"
    /\ status = 200
    /\ pc' = "idle" /\ req' = << >> /\ status' = 0
    /\ resp' = << >> /\ frame' = << >>
    /\ seen' = << [ req |-> req[1], resp |-> resp[1] ] >>

Next ==
    \/ \E r \in ServedRequests : Receive(r)
    \/ Reject
    \/ Calculate
    \/ Respond
    \/ Remember

Spec == Init /\ [][Next]_vars

\* calculate_protein as a function of its input: one request, drawn from
\* the whole scale, validated and answered
InitCalc ==
    /\ pc = "pending"
    /\ req \in { << r >> : r \in CalcRequests }
    /\ status = 0 /\ resp = << >> /\ frame = << >> /\ seen = << >>

NextCalc == Reject \/ Calculate

SpecCalc == InitCalc /\ [][NextCalc]_vars

(***************************************************************************)
(* Properties                                                              *)
(***************************************************************************)
Answered == pc = "done" /\ status = 200
Refused  == pc = "done" /\ status = 422

\* hundredths of a float that round(x, 2) produced
H(x) == Scaled(x, 2)

\* the split a plan of the response shows, as <<protein, carbs, fats>>
Shown(i) ==
    LET sp == resp[1].suggestions[i].macros.split_percent
    IN  << sp.protein, sp.carbs, sp.fats >>

Plans == 1..Len(archetypes)

(* C1: for every valid request the result of calculate_protein satisfies   *)
(* daily_grams_min <= daily_grams_target <= daily_grams_max.               *)
C1_TargetWithinRange ==
    Answered =>
        /\ resp[1].daily_grams_min <= resp[1].daily_grams_target
        /\ resp[1].daily_grams_target <= resp[1].daily_grams_max

C1_TargetStrictlyInside ==
    /\ Answered
    /\ req[1].unit = "lb"
    /\ resp[1].daily_grams_min < resp[1].daily_grams_target
    /\ resp[1].daily_grams_target < resp[1].daily_grams_max

(* C2: for each activity/goal combination the grams_per_kg_range returned  *)
(* has min_gkg <= max_gkg, and both bounds lie in [1.2, 2.7].              *)
C2_RangeOrderedAndBounded ==
    Answered =>
        LET g == resp[1].grams_per_kg_range
        IN  /\ FCmp(g[1], g[2]) <= 0
            /\ FCmp(FDec(12, 1), g[1]) <= 0
            /\ FCmp(g[2], FDec(27, 1)) <= 0

C2_HighestRange ==
    /\ Answered
    /\ req[1].activity = "high" /\ req[1].goal = "fat_loss"
    /\ resp[1].grams_per_kg_range = << FDec(20, 1), FDec(24, 1) >>

(* C3: in every plan the protein, carbs and fats percentages sum to 100;   *)
(* the only plan allowed to miss 100 is one under goal fat_loss in which   *)
(* the carbs floor and the fat floor bind at the same time.                *)
CarbsFloorBinds(i) ==
    /\ Shown(i)[2] = CarbsFloor
    /\ archetypes[i].pct[2] - (IF req[1].goal = "fat_loss" THEN 5 ELSE 0)
           < CarbsFloor
FatFloorBinds(i) ==
    /\ frame[1].loop[i].normalized
    /\ Shown(i)[3] = FatFloor
    /\ 100 - Shown(i)[1] - Shown(i)[2] < FatFloor

C3_SplitSumsTo100 ==
    Answered =>
        \A i \in Plans :
            \/ Shown(i)[1] + Shown(i)[2] + Shown(i)[3] = 100
            \/ /\ req[1].goal = "fat_loss"
               /\ CarbsFloorBinds(i)
               /\ FatFloorBinds(i)

C3_FatLossSplit ==
    /\ Answered
    /\ req[1].goal = "fat_loss"
    /\ Shown(4) = << 25, 55, 20 >>

(* C4 as stated: a request is rejected with a validation error, and no     *)
(* result is computed, exactly when its weight is <= 0 or > 1000 in the    *)
(* request's own unit.                                                     *)
WeightOutOfRange(r) == r.weight <= 0 \/ r.weight > MaxWeightValue * 100
AgeOutOfRange(r)    == \E a \in r.age : a < MinAge \/ a > MaxAge

RefBase(activity) ==
    CASE activity = "low"      -> << 120, 160 >>
      [] activity = "moderate" -> << 160, 200 >>
      [] activity = "high"     -> << 180, 220 >>
RefAdjust(goal) ==
    CASE goal = "fat_loss"    -> 20
      [] goal = "muscle_gain" -> 10
      [] goal = "maintenance" -> 0

BigAbsDiff(a, b) == IF BigCmp(a, b) >= 0 THEN BigSub(a, b) ELSE BigSub(b, a)
Million == BigFromInt(1000000)

\* k is a rounding of n / d
Rounds(k, n, d) ==
    BigCmp(BigMul(BigMulSmall(BigAbsDiff(BigMul(BigFromInt(k), d), n), 2),
                  Million),
           BigMul(d, BigFromInt(1000001))) <= 0

\* weight_kg in hundredths, exactly, is KgNum(r) / KgDen(r)
KgNum(r) ==
    IF r.unit = "kg" THEN BigFromInt(r.weight)
    ELSE BigMul(BigFromInt(r.weight), BigFromInt(45359237))
KgDen(r) == IF r.unit = "kg" THEN << 1 >> ELSE BigFromInt(100000000)

\* grams for g hundredths of a gram per kg, over c: g * weight_kg / c
Grams(k, g, c, r) ==
    Rounds(k, BigMul(BigFromInt(g), KgNum(r)),
              BigMul(BigFromInt(10000 * c), KgDen(r)))

Earlier == seen[1]
LighterBefore ==
    /\ Answered
    /\ seen # << >>
    /\ Earlier.req.unit = req[1].unit
    /\ Earlier.req.weight < req[1].weight

C6_ReportedStrictlyIncreasing ==
    LighterBefore => FCmp(Earlier.resp.weight_kg, resp[1].weight_kg) < 0

(* C6 amended: for a fixed unit and two valid weights w1 < w2, the         *)
(* weight_kg the response reports for w1 is less than or equal to the one  *)
(* it reports for w2, and strictly less when w2 - w1 >= 0.03; closer       *)
(* weights can report the same weight_kg, which is rounded to 2 decimals.  *)
C6_ReportedMonotone ==
    LighterBefore =>
        /\ FCmp(Earlier.resp.weight_kg, resp[1].weight_kg) <= 0
        /\ req[1].weight - Earlier.req.weight >= 3
             => FCmp(Earlier.resp.weight_kg, resp[1].weight_kg) < 0

C6_CloseWeightsReportSame ==
    /\ LighterBefore
    /\ req[1].unit = "lb"
    /\ Earlier.resp.weight_kg = resp[1].weight_kg

(* C7: in every plan protein_g, carbs_g and fats_g are multiples of 5,     *)
(* each a multiple of 5 nearest to the unrounded value it was computed     *)
(* from: the target grams, the local carbs_g, the local fats_g.            *)
\* twice the distance from the integer k to the float x is at most 5
Within5(k, x) ==
    IF x.m = << >> THEN 2 * k <= 5
    ELSE LET one == BigShl(<< 1 >>, 0 - x.e)
         IN  BigCmp(BigMulSmall(BigAbsDiff(BigMul(BigFromInt(k), one), x.m), 2),
                    BigMulSmall(one, 5)) <= 0

C7_GramsNearestMultipleOf5 ==
    Answered =>
        \A i \in Plans :
            LET m == resp[1].suggestions[i].macros
                l == frame[1].loop[i]
            IN  /\ m.protein_g % 5 = 0
                /\ m.carbs_g % 5 = 0
                /\ m.fats_g % 5 = 0
                /\ 2 * m.protein_g - 2 * resp[1].daily_grams_target <= 5
                /\ 2 * resp[1].daily_grams_target - 2 * m.protein_g <= 5
                /\ Within5(m.carbs_g, l.carbs_g)
                /\ Within5(m.fats_g, l.fats_g)

C7_GramsRounded ==
    /\ Answered
    /\ resp[1].daily_grams_target = 144
    /\ resp[1].suggestions[1].macros.protein_g = 145
    /\ resp[1].suggestions[1].macros.carbs_g = 215
    /\ resp[1].suggestions[1].macros.fats_g = 55

(* C8: two calls of calculate_protein with identical input return          *)
(* identical output, whatever was served before or between them.           *)
SameAsBefore == Answered /\ seen # << >> /\ Earlier.req = req[1]

Sentence(lo, hi) ==
    "Based on your activity and goal, a range of " \o lo \o "-" \o hi
    \o " g/kg is appropriate. Using your body weight, that translates to"
    \o " the amounts shown. Hitting the middle of the range is a practical"
    \o " daily target."

C9_RationaleTwoDecimals ==
    Answered =>
        LET g == resp[1].grams_per_kg_range
        IN  resp[1].rationale = Sentence(DecText(H(g[1]), 2), DecText(H(g[2]), 2))

(* C9 amended: the rationale follows one fixed template and embeds min_gkg *)
(* and max_gkg each with exactly one decimal, the default text of a float  *)
(* that is a whole number of tenths, as all nine ranges are: for range     *)
(* (1.6, 2.0) it reads '1.6-2.0 g/kg'.                                     *)
C9_RationaleOneDecimal ==
    Answered =>
        LET g == resp[1].grams_per_kg_range
        IN  /\ H(g[1]) % 10 = 0
            /\ H(g[2]) % 10 = 0
            /\ resp[1].rationale =
                   Sentence(DecText(H(g[1]) \div 10, 1),
                            DecText(H(g[2]) \div 10, 1))

C9_ModerateMaintenanceText ==
    /\ Answered
    /\ req[1].activity = "moderate" /\ req[1].goal = "maintenance"
    /\ resp[1].rationale = Sentence("1.6", "2.0")

====
